---- MODULE Spec2Model ----
(***************************************************************************)
(* The erasure-coded write path of xl-v1-createfile.go: XL.CreateFile      *)
(* spawns the producer XL.writeErasure, which scans the existing sidecars, *)
(* stages a part writer and a sidecar writer on every disk, streams the    *)
(* pipe block by block through the codec to the part writers, writes the   *)
(* sidecars, and commits every writer under the exclusive namespace lock.  *)
(* The caller of the handle and a concurrent version-scanning reader run   *)
(* beside the producer.                                                    *)
(***************************************************************************)
EXTENDS Integers, Sequences, FiniteSets, TLC

(***************************************************************************)
(* Bounds of the model and configuration of the XL object.                 *)
(***************************************************************************)
\* len(xl.storageDisks)
NumDisks == 3
\* xl.DataBlocks
DataBlocks == 1
\* longest input stream the caller writes, in pieces of PieceSize bytes
MaxLen == 3
\* largest slice the caller hands to one Write, in pieces
MaxChunk == 2
\* highest file.version an earlier partial write left on the disks
MaxVersion == 1

\* erasureBlockSize: 4 MiB
erasureBlockSize == 4 * 1024 * 1024

\* the caller writes the stream in pieces of half a block; every byte of a
\* piece has the same value
PieceSize == erasureBlockSize \div 2

ParityBlocks == NumDisks - DataBlocks
\* the quorums of the XL object: R = D and W = D + 1
readQuorum == DataBlocks
writeQuorum == DataBlocks + 1

\* disks are indexed 0..N-1 as in xl.storageDisks
Disks == 0 .. (NumDisks - 1)

(***************************************************************************)
(* Error values.                                                           *)
(***************************************************************************)
nil == "nil"
errFileNotFound == "errFileNotFound"
errWriteQuorum == "errWriteQuorum"
errReadQuorum == "errReadQuorum"
errInvalidArgument == "errInvalidArgument"
EOF == "EOF"
ErrUnexpectedEOF == "ErrUnexpectedEOF"
ErrClosedPipe == "ErrClosedPipe"
\* failures of the collaborators, one value per failing operation
errDiskScan == "errDiskScan"
errDiskCreate == "errDiskCreate"
errDiskWrite == "errDiskWrite"
errMetaWrite == "errMetaWrite"
errDiskClose == "errDiskClose"
errDiskDelete == "errDiskDelete"
errDiscard == "errDiscard"
errSplit == "errSplit"
errEncode == "errEncode"
errCallerAbort == "errCallerAbort"

\* an absent file is the empty sequence, a present one the one-element
\* sequence of its content; likewise a scan that has not happened
NoFile == <<>>
File(content) == <<content>>
NoView == <<>>
View(sidecars) == <<sidecars>>

(***************************************************************************)
(* Pure helpers: decimal and hex formatting, the hash, the codec.          *)
(***************************************************************************)
Max(a, b) == IF a >= b THEN a ELSE b
Min(a, b) == IF a <= b THEN a ELSE b

RECURSIVE Digits(_, _)
\* the digits of n in the given base, most significant first
Digits(n, base) ==
    IF n < base THEN <<n>> ELSE Append(Digits(n \div base, base), n % base)

\* strconv.FormatInt(n, 10) and strconv.Itoa(n)
FormatInt(n) == Digits(n, 10)

RECURSIVE ParseFrom(_, _)
ParseFrom(s, acc) ==
    IF s = <<>> THEN acc ELSE ParseFrom(Tail(s), acc * 10 + Head(s))

\* strconv.ParseInt(s, 10, 64)
ParseInt(s) == ParseFrom(s, 0)

\* hex.EncodeToString of a digest
HexEncode(h) == Digits(h, 16)

(***************************************************************************)
(* Byte sequences. A []byte is kept as the sequence of its runs <<value,    *)
(* count>>: count bytes of the same value, no two neighbouring runs with    *)
(* the same value. The operators below are the slice operations on it.      *)
(***************************************************************************)
RECURSIVE BytesLen(_)
\* len(b)
BytesLen(b) == IF b = <<>> THEN 0 ELSE Head(b)[2] + BytesLen(Tail(b))

\* append(a, b...)
BytesCat(a, b) ==
    IF a = <<>> THEN b
    ELSE IF b = <<>> THEN a
    ELSE IF a[Len(a)][1] = b[1][1]
         THEN SubSeq(a, 1, Len(a) - 1)
                  \o << <<b[1][1], a[Len(a)][2] + b[1][2]>> >> \o Tail(b)
         ELSE a \o b

RECURSIVE BytesTake(_, _)
\* b[0:n], or all of b when it is shorter
BytesTake(b, n) ==
    IF n <= 0 \/ b = <<>> THEN <<>>
    ELSE IF Head(b)[2] <= n
         THEN <<Head(b)>> \o BytesTake(Tail(b), n - Head(b)[2])
         ELSE << <<Head(b)[1], n>> >>

RECURSIVE BytesDrop(_, _)
\* b[n:], or nothing when b is shorter
BytesDrop(b, n) ==
    IF b = <<>> THEN <<>>
    ELSE IF n <= 0 THEN b
    ELSE IF Head(b)[2] <= n THEN BytesDrop(Tail(b), n - Head(b)[2])
    ELSE << <<Head(b)[1], Head(b)[2] - n>> >> \o Tail(b)

\* n zero bytes
Zeros(n) == IF n <= 0 THEN <<>> ELSE << <<0, n>> >>

\* The digest is kept as a checksum of two sums mod 32749 over the bytes
\* absorbed: a, one plus the sum of the bytes, and b, the sum of the values a
\* took after each byte.
\* fastSha512.New(): the state <<a, b>> of a fresh hasher
sha512New == <<1, 0>>

\* c * (c + 1) / 2 mod 32749
Triangle(c) ==
    IF c % 2 = 0 THEN (((c \div 2) % 32749) * ((c + 1) % 32749)) % 32749
    ELSE ((c % 32749) * (((c + 1) \div 2) % 32749)) % 32749

\* the state after absorbing c bytes of value v, one by one, into state h
HashStep(h, v, c) ==
    <<(h[1] + (c % 32749) * v) % 32749,
      (h[2] + (((c % 32749) * h[1]) % 32749) + ((v * Triangle(c)) % 32749))
          % 32749>>

RECURSIVE sha512Write(_, _)
\* hash.Hash.Write: absorb bytes into the running state
sha512Write(h, bytes) ==
    IF bytes = <<>> THEN h
    ELSE sha512Write(HashStep(h, Head(bytes)[1], Head(bytes)[2]), Tail(bytes))

\* hash.Hash.Sum(nil)
sha512Sum(h) == h[2] * 32749 + h[1]

\* the digest of a whole byte sequence
Sha512Of(bytes) == sha512Sum(sha512Write(sha512New, bytes))

\* the value of the bytes of piece p of the stream (pieces count from 1)
InputByte(p) == (p % 5) + 1

RECURSIVE InputBytes(_, _)
\* the k bytes of the stream after its first `from` bytes
InputBytes(from, k) ==
    IF k <= 0 THEN <<>>
    ELSE LET p == (from \div PieceSize) + 1
             n == Min(k, p * PieceSize - from)
         IN  BytesCat(<< <<InputByte(p), n>> >>, InputBytes(from + n, k - n))

\* shard length of a block of n bytes
PerShard(n) == (n + DataBlocks - 1) \div DataBlocks

\* b padded with zero bytes to n bytes
ZeroPadded(b, n) == BytesCat(b, Zeros(n - BytesLen(b)))

\* data shard i of a block: its bytes i*per .. (i+1)*per, zero-padded
DataShard(data, i, per) ==
    ZeroPadded(BytesTake(BytesDrop(data, i * per), per), per)

RECURSIVE Shards(_, _, _)
\* the shards 0..i of a block: data shards of per bytes, then zeroed parity
\* shards
Shards(data, per, i) ==
    IF i < 0 THEN <<>>
    ELSE Shards(data, per, i - 1)
             @@ (i :> (IF i < DataBlocks THEN DataShard(data, i, per)
                       ELSE Zeros(per)))

\* ReedSolomon.Split: D data shards, the last one zero-padded, and P zeroed
\* parity shards
Split(data) == Shards(data, PerShard(BytesLen(data)), NumDisks - 1)

RECURSIVE ByteAt(_, _)
\* b[k], positions counting from 0
ByteAt(b, k) ==
    IF k < Head(b)[2] THEN Head(b)[1] ELSE ByteAt(Tail(b), k - Head(b)[2])

RECURSIVE RunEnd(_, _)
\* the first position after k at which b may change its value
RunEnd(b, k) ==
    IF k < Head(b)[2] THEN Head(b)[2]
    ELSE Head(b)[2] + RunEnd(Tail(b), k - Head(b)[2])

RECURSIVE ParitySum(_, _, _, _)
\* byte k of parity shard j over the data shards 0..i
ParitySum(shards, j, k, i) ==
    IF i < 0 THEN 0
    ELSE ((i + j + 1) * ByteAt(shards[i], k) + ParitySum(shards, j, k, i - 1)) % 251

\* the first position after k at which some data shard may change its value
CommonRun(shards, k) ==
    CHOOSE n \in {RunEnd(shards[i], k) : i \in 0 .. (DataBlocks - 1)} :
        \A i \in 0 .. (DataBlocks - 1) : n <= RunEnd(shards[i], k)

RECURSIVE ParityShard(_, _, _, _)
\* the bytes k .. per-1 of parity shard j
ParityShard(shards, j, k, per) ==
    IF k >= per THEN <<>>
    ELSE BytesCat(<< <<ParitySum(shards, j, k, DataBlocks - 1),
                       CommonRun(shards, k) - k>> >>,
                  ParityShard(shards, j, CommonRun(shards, k), per))

\* ReedSolomon.Encode: fill shards D..N-1 with parity over the data shards
Encode(shards) ==
    [j \in Disks |->
        IF j < DataBlocks THEN shards[j]
        ELSE ParityShard(shards, j, 0, BytesLen(shards[0]))]

(***************************************************************************)
(* fileMetadata: a map from keys to values.                                *)
(***************************************************************************)
EmptyMetadata == [k \in {} |-> <<>>]

\* fileMetadata.Set
MetaSet(m, key, value) ==
    [k \in (DOMAIN m) \cup {key} |-> IF k = key THEN value ELSE m[k]]

MetaHas(m, key) == key \in DOMAIN m

minioVersion == <<2, 0, 1, 6>>
\* modTime.Format(timeFormatAMZ) of the clock reading t
FormatTime(t) == <<9>> \o FormatInt(t)
\* time.Now() of this transaction; earlier objects carry time 0
Now == 1

\* the sidecar an earlier write left behind: v = 0 means file.version absent
OldMetadata(v) ==
    LET base == [k \in {"version", "format.major", "format.minor", "format.patch",
                        "file.size", "file.modTime", "file.xl.blockSize",
                        "file.xl.dataBlocks", "file.xl.parityBlocks",
                        "file.xl.block512Sum"} |->
                   CASE k = "version" -> minioVersion
                     [] k = "format.major" -> <<1>>
                     [] k = "file.size" -> FormatInt(0)
                     [] k = "file.modTime" -> FormatTime(0)
                     [] k = "file.xl.blockSize" -> FormatInt(erasureBlockSize)
                     [] k = "file.xl.dataBlocks" -> FormatInt(DataBlocks)
                     [] k = "file.xl.parityBlocks" -> FormatInt(ParityBlocks)
                     [] k = "file.xl.block512Sum" -> HexEncode(Sha512Of(<<>>))
                     [] OTHER -> <<0>>]
    IN  IF v = 0 THEN base ELSE MetaSet(base, "file.version", FormatInt(v))

(***************************************************************************)
(* State.                                                                  *)
(***************************************************************************)
VARIABLES
    \* the disks: what lies at the final path of (volume, path) on each disk
    filePart,          \* part.i, a byte sequence, or NoFile
    fileMeta,          \* the sidecar, a fileMetadata, or NoFile
    \* the writer objects the disks' CreateFile returned in this transaction
    \* (st: "none" before CreateFile, "failed" when CreateFile returned an
    \* error, then "staged", "committed" or "discarded")
    partWriter,        \* [st, data] of the part.i writer of each disk
    metaWriter,        \* [st, rec] of the sidecar writer of each disk
    \* the namespace lock on (volume, path): "free", "shared" or "exclusive"
    nsLock,
    \* the pipe and the wait closer
    pipeBuf,           \* bytes of the caller's Write not yet read
    pipeWerr,          \* "open", or what the write side was closed with
    pipeRerr,          \* "open", or what the read side was closed with
    readerCloses,      \* the arguments of the producer's closes of the reader
    released,          \* wcloser.release() has run
    \* the caller of the handle
    callerPc, sent, callerErr,
    \* the XL object: its erasure configuration and quorums
    xl,
    \* writeErasure: position and locals
    pc, index, errs, partsMetadata, metadataReadErrCount, higherVersion,
    writers, metadataWriters, sha512Writers, createFileError,
    dataBuffer, dataBlocks, totalSize, metadata, err, abortSite,
    \* the concurrent reader's last version scan
    readerView,
    \* history: the sidecars before the write and after its commit, whether
    \* any CreateFile, Write, Close or DeleteFile was issued to a disk, and
    \* what cleanup's DeleteFile returned on each disk ("none": not called)
    preMeta, postMeta, diskTouched, deleteErrs

diskVars == <<filePart, fileMeta, partWriter, metaWriter>>
pipeVars == <<pipeBuf, pipeWerr, pipeRerr, readerCloses, released>>
callerVars == <<callerPc, sent, callerErr>>
scanVars == <<xl, errs, partsMetadata, metadataReadErrCount, higherVersion>>
stageVars == <<writers, metadataWriters, sha512Writers, createFileError>>
blockVars == <<dataBuffer, dataBlocks, totalSize>>
histVars == <<preMeta, postMeta, diskTouched, deleteErrs>>

vars == <<filePart, fileMeta, partWriter, metaWriter, nsLock,
          pipeBuf, pipeWerr, pipeRerr, readerCloses, released,
          callerPc, sent, callerErr, xl,
          pc, index, errs, partsMetadata, metadataReadErrCount, higherVersion,
          writers, metadataWriters, sha512Writers, createFileError,
          dataBuffer, dataBlocks, totalSize, metadata, err, abortSite,
          readerView, preMeta, postMeta, diskTouched, deleteErrs>>

NoWriter == [st |-> "none", data |-> <<>>]
NoMetaWriter == [st |-> "none", rec |-> NoFile]
NoHash == [set |-> FALSE, h |-> <<0, 0>>]
NoErrs == [d \in Disks |-> nil]
NoParts == [d \in Disks |-> EmptyMetadata]
NoBlocks == [d \in Disks |-> <<>>]

\* what an earlier write left on the disks: nothing, a complete object
\* without file.version, or a partial object with file.version v on all
\* disks but the last
PriorObjects ==
    {[d \in Disks |-> NoFile], [d \in Disks |-> File(OldMetadata(0))]}
    \cup {[d \in Disks |-> IF d < NumDisks - 1 THEN File(OldMetadata(v)) ELSE NoFile] :
             v \in 1 .. MaxVersion}

\* an XL object over the NumDisks disks with d data blocks: R = D, W = D + 1
XLWith(d) ==
    [DataBlocks |-> d, ParityBlocks |-> NumDisks - d,
     readQuorum |-> d, writeQuorum |-> d + 1]

\* the state before CreateFile is called on the XL object config
InitWith(config) ==
    /\ xl = config
    /\ \E prior \in PriorObjects :
          /\ fileMeta = prior
          /\ filePart = [d \in Disks |-> IF prior[d] = NoFile THEN NoFile ELSE File(<<>>)]
          /\ preMeta = prior
    /\ postMeta = NoView
    /\ diskTouched = FALSE
    /\ deleteErrs = [d \in Disks |-> "none"]
    /\ partWriter = [d \in Disks |-> NoWriter]
    /\ metaWriter = [d \in Disks |-> NoMetaWriter]
    /\ nsLock = "free"
    /\ pipeBuf = <<>>
    /\ pipeWerr = "open"
    /\ pipeRerr = "open"
    /\ readerCloses = <<>>
    /\ released = FALSE
    /\ callerPc = "init"
    /\ sent = 0
    /\ callerErr = nil
    /\ pc = "idle"
    /\ index = 0
    /\ errs = NoErrs
    /\ partsMetadata = NoParts
    /\ metadataReadErrCount = 0
    /\ higherVersion = 0
    /\ writers = [d \in Disks |-> FALSE]
    /\ metadataWriters = [d \in Disks |-> FALSE]
    /\ sha512Writers = [d \in Disks |-> NoHash]
    /\ createFileError = 0
    /\ dataBuffer = <<>>
    /\ dataBlocks = NoBlocks
    /\ totalSize = 0
    /\ metadata = EmptyMetadata
    /\ err = nil
    /\ abortSite = "none"
    /\ readerView = NoView

Init == InitWith(XLWith(DataBlocks))

(***************************************************************************)
(* XL.CreateFile and the caller of the handle.                             *)
(***************************************************************************)
\* CreateFile: validate the names, make the pipe, start writeErasure
CreateFile ==
    /\ callerPc = "init"
    /\ \E validVolume \in BOOLEAN, validPath \in BOOLEAN :
          IF validVolume /\ validPath
          THEN /\ callerPc' = "ready"
               /\ pc' = "lockRead"
               /\ callerErr' = nil
          ELSE /\ callerPc' = "returned"
               /\ pc' = "idle"
               /\ callerErr' = errInvalidArgument
    /\ UNCHANGED <<diskVars, nsLock, pipeVars, sent, index, scanVars, stageVars,
                   blockVars, metadata, err, abortSite, readerView, histVars>>

\* the caller's Write of the next k pieces: it blocks until the producer has
\* read them, and fails at once when the read side is closed
CallerWrite ==
    /\ callerPc = "ready"
    /\ pipeWerr = "open"
    /\ \E k \in 1 .. Min(MaxChunk, MaxLen - (sent \div PieceSize)) :
          IF pipeRerr = "open"
          THEN /\ pipeBuf' = InputBytes(sent, k * PieceSize)
               /\ sent' = sent + k * PieceSize
               /\ callerPc' = "inWrite"
               /\ callerErr' = callerErr
          ELSE /\ callerErr' = pipeRerr
               /\ callerPc' = "failed"
               /\ UNCHANGED <<pipeBuf, sent>>
    /\ UNCHANGED <<diskVars, nsLock, pipeWerr, pipeRerr, readerCloses, released,
                   pc, index, scanVars, stageVars, blockVars, metadata, err,
                   abortSite, readerView, histVars>>

\* a blocked Write returns the error the producer closed the reader with
CallerWriteFails ==
    /\ callerPc = "inWrite"
    /\ pipeRerr # "open"
    /\ pipeBuf' = <<>>
    /\ callerErr' = pipeRerr
    /\ callerPc' = "failed"
    /\ UNCHANGED <<diskVars, nsLock, pipeWerr, pipeRerr, readerCloses, released,
                   sent, pc, index, scanVars, stageVars, blockVars, metadata,
                   err, abortSite, readerView, histVars>>

\* the caller closes the handle, cleanly or with an error, and waits for the
\* producer's release
CallerClose ==
    /\ callerPc \in {"ready", "failed"}
    /\ pipeWerr = "open"
    /\ \E e \in {EOF, errCallerAbort} : pipeWerr' = e
    /\ callerPc' = "inClose"
    /\ UNCHANGED <<diskVars, nsLock, pipeBuf, pipeRerr, readerCloses, released,
                   sent, callerErr, pc, index, scanVars, stageVars, blockVars,
                   metadata, err, abortSite, readerView, histVars>>

\* Close returns once the wait closer has been released
CallerCloseReturns ==
    /\ callerPc = "inClose"
    /\ released
    /\ callerPc' = "returned"
    /\ UNCHANGED <<diskVars, nsLock, pipeVars, sent, callerErr, pc, index,
                   scanVars, stageVars, blockVars, metadata, err, abortSite,
                   readerView, histVars>>

(***************************************************************************)
(* A concurrent reader: the version scan under the shared lock.            *)
(***************************************************************************)
ReaderScan ==
    /\ nsLock # "exclusive"
    /\ readerView' = View(fileMeta)
    /\ UNCHANGED <<diskVars, nsLock, pipeVars, callerVars, pc, index, scanVars,
                   stageVars, blockVars, metadata, err, abortSite, histVars>>

(***************************************************************************)
(* writeErasure: the version scan.                                         *)
(***************************************************************************)
\* xl.lockNS(volume, path, readLock) with readLock = true
LockRead ==
    /\ pc = "lockRead"
    /\ nsLock = "free"
    /\ nsLock' = "shared"
    /\ pc' = "scan"
    /\ UNCHANGED <<diskVars, pipeVars, callerVars, index, scanVars, stageVars,
                   blockVars, metadata, err, abortSite, readerView, histVars>>

\* the error of reading the sidecar of disk d, which may be faulty
ScanError(d, faulty) ==
    IF d \in faulty THEN errDiskScan
    ELSE IF fileMeta[d] = NoFile THEN errFileNotFound ELSE nil

\* xl.getPartsMetadata: read every disk's sidecar
GetPartsMetadata ==
    /\ pc = "scan"
    /\ \E faulty \in SUBSET Disks :
          /\ errs' = [d \in Disks |-> ScanError(d, faulty)]
          /\ partsMetadata' =
                [d \in Disks |->
                    IF ScanError(d, faulty) = nil THEN fileMeta[d][1]
                    ELSE EmptyMetadata]
    /\ pc' = "unlockRead"
    /\ UNCHANGED <<diskVars, nsLock, pipeVars, callerVars, index, xl,
                   metadataReadErrCount, higherVersion, stageVars, blockVars,
                   metadata, err, abortSite, readerView, histVars>>

\* mutant: the unlock of the shared lock is deferred to the return
UnlockReadDeferred ==
    /\ pc = "unlockRead"
    /\ nsLock' = nsLock
    /\ pc' = "countErrs"
    /\ UNCHANGED <<diskVars, pipeVars, callerVars, index, scanVars, stageVars,
                   blockVars, metadata, err, abortSite, readerView, histVars>>

\* xl.unlockNS(volume, path, readLock)
UnlockRead ==
    /\ pc = "unlockRead"
    /\ nsLock' = "free"
    /\ pc' = "countErrs"
    /\ UNCHANGED <<diskVars, pipeVars, callerVars, index, scanVars, stageVars,
                   blockVars, metadata, err, abortSite, readerView, histVars>>

\* err != nil && err != errFileNotFound
OtherError(e) == e # nil /\ e # errFileNotFound

RECURSIVE CountErrs(_, _)
\* metadataReadErrCount after the loop has visited disks 0..i
CountErrs(es, i) ==
    IF i < 0 THEN 0
    ELSE CountErrs(es, i - 1) + (IF OtherError(es[i]) THEN 1 ELSE 0)

\* metadataReadErrCount > xl.readQuorum
ReadQuorumLost(count) == count > xl.readQuorum

\* the file.version of each sidecar: 0 when the key is absent, -1 when the
\* sidecar could not be read
listFileVersions(parts, es) ==
    [d \in Disks |->
        IF es[d] = nil
        THEN IF MetaHas(parts[d], "file.version")
             THEN ParseInt(parts[d]["file.version"]) ELSE 0
        ELSE -1]

RECURSIVE HighestUpTo(_, _)
HighestUpTo(versions, i) ==
    IF i < 0 THEN 0 ELSE Max(versions[i], HighestUpTo(versions, i - 1))

highestInt(versions) == HighestUpTo(versions, NumDisks - 1)

\* the count of scan errors against the read quorum, then the next version
\* and the empty writer slices
CheckReadQuorum ==
    /\ pc = "countErrs"
    /\ LET lost == {i \in Disks : ReadQuorumLost(CountErrs(errs, i))}
       IN  IF lost # {}
           THEN LET i == CHOOSE x \in lost : \A y \in lost : x <= y
                IN  /\ metadataReadErrCount' = CountErrs(errs, i)
                    /\ err' = errs[i]
                    /\ abortSite' = "scan"
                    /\ pc' = "closeWithError"
                    /\ higherVersion' = higherVersion
           ELSE /\ metadataReadErrCount' = CountErrs(errs, NumDisks - 1)
                /\ higherVersion' =
                      highestInt(listFileVersions(partsMetadata, errs)) + 1
                /\ err' = nil
                /\ abortSite' = abortSite
                /\ pc' = "createPart"
    \* errs and partsMetadata are not read after this point
    /\ errs' = NoErrs
    /\ partsMetadata' = NoParts
    /\ index' = 0
    /\ UNCHANGED <<diskVars, nsLock, pipeVars, callerVars, xl, stageVars,
                   blockVars, metadata, readerView, histVars>>

(***************************************************************************)
(* writeErasure: staged open.                                              *)
(***************************************************************************)
\* mutant: one CreateFile failure too many is tolerated
CreateFileToleratedLax(count) == count <= NumDisks - writeQuorum + 1

\* createFileError <= len(xl.storageDisks) - xl.writeQuorum
CreateFileTolerated(count) == count <= NumDisks - writeQuorum

\* the next index of a loop over the disks, 0 once the loop has ended
NextIndex(i) == IF i + 1 < NumDisks THEN i + 1 ELSE 0

\* where the staging loop goes after disk i
AfterStaging(i) == IF i + 1 < NumDisks THEN "createPart" ELSE "read"

\* mutant: the staging abort returns without cleanupCreateFileOps
StagingFailureNoCleanup ==
    /\ err' = errDiskCreate
    /\ createFileError' = createFileError + 1
    /\ IF CreateFileTolerated(createFileError + 1)
       THEN /\ pc' = AfterStaging(index)
            /\ index' = NextIndex(index)
            /\ abortSite' = abortSite
       ELSE /\ pc' = "closeWithError"
            /\ index' = index
            /\ abortSite' = "staging"

\* a CreateFile of disk `index` failed: count it, and continue with the next
\* disk or abort with cleanup
StagingFailure ==
    /\ err' = errDiskCreate
    /\ createFileError' = createFileError + 1
    /\ IF CreateFileTolerated(createFileError + 1)
       THEN /\ pc' = AfterStaging(index)
            /\ index' = NextIndex(index)
            /\ abortSite' = abortSite
       ELSE /\ pc' = "cleanup"
            /\ index' = 0
            /\ abortSite' = "staging"

\* disk.CreateFile(volume, path/part.index)
CreatePart ==
    /\ pc = "createPart"
    /\ diskTouched' = TRUE
    /\ \E ok \in BOOLEAN :
          IF ok
          THEN /\ partWriter' = [partWriter EXCEPT ![index] =
                                    [st |-> "staged", data |-> <<>>]]
               /\ err' = nil
               /\ pc' = "createMeta"
               /\ UNCHANGED <<createFileError, index, abortSite>>
          ELSE /\ StagingFailure
               /\ partWriter' = [partWriter EXCEPT ![index].st = "failed"]
    /\ UNCHANGED <<filePart, fileMeta, metaWriter, nsLock, pipeVars, callerVars,
                   scanVars, writers, metadataWriters, sha512Writers, blockVars,
                   metadata, readerView, preMeta, postMeta, deleteErrs>>

\* disk.CreateFile(volume, path/metadataFile); on success the two writers and
\* a fresh hasher are stored at `index`
CreateMeta ==
    /\ pc = "createMeta"
    /\ \E ok \in BOOLEAN :
          IF ok
          THEN /\ metaWriter' = [metaWriter EXCEPT ![index] =
                                    [st |-> "staged", rec |-> NoFile]]
               /\ writers' = [writers EXCEPT ![index] = TRUE]
               /\ metadataWriters' = [metadataWriters EXCEPT ![index] = TRUE]
               /\ sha512Writers' = [sha512Writers EXCEPT ![index] =
                                       [set |-> TRUE, h |-> sha512New]]
               /\ err' = nil
               /\ pc' = AfterStaging(index)
               /\ index' = NextIndex(index)
               /\ UNCHANGED <<createFileError, abortSite>>
          ELSE /\ StagingFailure
               /\ metaWriter' = [metaWriter EXCEPT ![index].st = "failed"]
               /\ UNCHANGED <<writers, metadataWriters, sha512Writers>>
    /\ UNCHANGED <<filePart, fileMeta, partWriter, nsLock, pipeVars, callerVars,
                   scanVars, blockVars, metadata, readerView, histVars>>

(***************************************************************************)
(* writeErasure: the block loop.                                           *)
(***************************************************************************)
\* one Read of io.ReadFull(reader, dataBuffer): take what the caller's Write
\* offers, up to the room left in the block
ReadData ==
    /\ pc = "read"
    /\ pipeBuf # <<>>
    /\ LET k == Min(BytesLen(pipeBuf), erasureBlockSize - BytesLen(dataBuffer))
       IN  /\ dataBuffer' = BytesCat(dataBuffer, BytesTake(pipeBuf, k))
           /\ pipeBuf' = BytesDrop(pipeBuf, k)
           /\ callerPc' = IF k = BytesLen(pipeBuf) THEN "ready" ELSE callerPc
           /\ IF BytesLen(dataBuffer) + k = erasureBlockSize
              THEN pc' = "split" /\ err' = nil
              ELSE pc' = "read" /\ err' = err
    /\ UNCHANGED <<diskVars, nsLock, pipeWerr, pipeRerr, readerCloses, released,
                   sent, callerErr, index, scanVars, stageVars, dataBlocks,
                   totalSize, metadata, abortSite, readerView, histVars>>

\* mutant: the loop is left on io.ErrUnexpectedEOF too, before the short
\* block is written
ReadEOFBreaksOnShort ==
    /\ pc = "read"
    /\ pipeBuf = <<>>
    /\ pipeWerr = EOF
    /\ err' = (IF dataBuffer = <<>> THEN EOF ELSE ErrUnexpectedEOF)
    /\ pc' = "initMetadata"
    /\ UNCHANGED <<diskVars, nsLock, pipeVars, callerVars, index, scanVars,
                   stageVars, blockVars, metadata, abortSite, readerView,
                   histVars>>

\* io.ReadFull at the end of the stream: io.EOF with no byte read leaves the
\* loop, io.ErrUnexpectedEOF hands over the short block
ReadEOF ==
    /\ pc = "read"
    /\ pipeBuf = <<>>
    /\ pipeWerr = EOF
    /\ IF dataBuffer = <<>>
       THEN err' = EOF /\ pc' = "initMetadata"
       ELSE err' = ErrUnexpectedEOF /\ pc' = "split"
    /\ UNCHANGED <<diskVars, nsLock, pipeVars, callerVars, index, scanVars,
                   stageVars, blockVars, metadata, abortSite, readerView,
                   histVars>>

\* io.ReadFull returns the error the caller closed the handle with
ReadError ==
    /\ pc = "read"
    /\ pipeBuf = <<>>
    /\ pipeWerr \notin {"open", EOF}
    /\ err' = pipeWerr
    /\ abortSite' = "read"
    /\ pc' = "cleanup"
    /\ UNCHANGED <<diskVars, nsLock, pipeVars, callerVars, index, scanVars,
                   stageVars, blockVars, metadata, readerView, histVars>>

\* xl.ReedSolomon.Split(dataBuffer[0:n])
SplitBlock ==
    /\ pc = "split"
    /\ \E ok \in BOOLEAN :
          IF ok
          THEN /\ dataBlocks' = Split(dataBuffer)
               /\ err' = nil
               /\ pc' = "encode"
               /\ abortSite' = abortSite
          ELSE /\ err' = errSplit
               /\ abortSite' = "split"
               /\ pc' = "cleanup"
               /\ dataBlocks' = dataBlocks
    /\ UNCHANGED <<diskVars, nsLock, pipeVars, callerVars, index, scanVars,
                   stageVars, dataBuffer, totalSize, metadata, readerView,
                   histVars>>

\* xl.ReedSolomon.Encode(dataBlocks)
EncodeBlock ==
    /\ pc = "encode"
    /\ \E ok \in BOOLEAN :
          IF ok
          THEN /\ dataBlocks' = Encode(dataBlocks)
               /\ err' = nil
               /\ pc' = "write"
               /\ abortSite' = abortSite
          ELSE /\ err' = errEncode
               /\ abortSite' = "encode"
               /\ pc' = "cleanup"
               /\ dataBlocks' = dataBlocks
    /\ index' = 0
    /\ UNCHANGED <<diskVars, nsLock, pipeVars, callerVars, scanVars, stageVars,
                   dataBuffer, totalSize, metadata, readerView, histVars>>

\* encodedData := dataBlocks[index]
EncodedData(blocks, i) == blocks[i]

\* mutant: every block counts as a full block
TotalAfterBlockFull(total, n) == total + erasureBlockSize

\* totalSize += int64(n)
TotalAfterBlock(total, n) == total + n

\* the end of one pass of the shard loop over disk `index`: the next disk,
\* or the total is updated and the next block is read
ShardLoopStep ==
    /\ index' = NextIndex(index)
    /\ IF index + 1 < NumDisks
       THEN /\ pc' = "write"
            /\ UNCHANGED <<dataBuffer, dataBlocks, totalSize>>
       ELSE /\ pc' = "read"
            /\ totalSize' = TotalAfterBlock(totalSize, BytesLen(dataBuffer))
            /\ dataBuffer' = <<>>
            /\ dataBlocks' = NoBlocks

\* one pass of the loop over writers: writers[index].Write(encodedData), then
\* sha512Writers[index].Write(encodedData)
WriteShard ==
    /\ pc = "write"
    /\ IF ~writers[index]
       THEN /\ ShardLoopStep
            /\ UNCHANGED <<partWriter, sha512Writers, err, abortSite, diskTouched>>
       ELSE /\ diskTouched' = TRUE
            /\ \E ok \in BOOLEAN :
               IF ok
               THEN /\ partWriter' =
                          [partWriter EXCEPT ![index].data =
                              BytesCat(@, EncodedData(dataBlocks, index))]
                    /\ sha512Writers' =
                          IF sha512Writers[index].set
                          THEN [sha512Writers EXCEPT ![index].h =
                                   sha512Write(@, EncodedData(dataBlocks, index))]
                          ELSE sha512Writers
                    /\ ShardLoopStep
                    /\ err' = nil
                    /\ abortSite' = abortSite
               ELSE /\ err' = errDiskWrite
                    /\ abortSite' = "write"
                    /\ pc' = "cleanup"
                    /\ index' = 0
                    /\ UNCHANGED <<partWriter, sha512Writers, dataBuffer,
                                   dataBlocks, totalSize>>
    /\ UNCHANGED <<filePart, fileMeta, metaWriter, nsLock, pipeVars, callerVars,
                   scanVars, writers, metadataWriters, createFileError, metadata,
                   readerView, preMeta, postMeta, deleteErrs>>

(***************************************************************************)
(* writeErasure: the metadata write.                                       *)
(***************************************************************************)
\* len(writers): writers is made with len(xl.storageDisks) entries
LenWriters == NumDisks

\* len(xl.storageDisks) > len(writers)
SaveFileVersion == NumDisks > LenWriters

\* the fileMetadata of lines 235-249
NewMetadata ==
    LET m1 == MetaSet(EmptyMetadata, "version", minioVersion)
        m2 == MetaSet(m1, "format.major", <<1>>)
        m3 == MetaSet(m2, "format.minor", <<0>>)
        m4 == MetaSet(m3, "format.patch", <<0>>)
        m5 == MetaSet(m4, "file.size", FormatInt(totalSize))
        m6 == IF SaveFileVersion
              THEN MetaSet(m5, "file.version", FormatInt(higherVersion))
              ELSE m5
        m7 == MetaSet(m6, "file.modTime", FormatTime(Now))
        m8 == MetaSet(m7, "file.xl.blockSize", FormatInt(erasureBlockSize))
        m9 == MetaSet(m8, "file.xl.dataBlocks", FormatInt(DataBlocks))
    IN  MetaSet(m9, "file.xl.parityBlocks", FormatInt(ParityBlocks))

InitMetadata ==
    /\ pc = "initMetadata"
    /\ metadata' = NewMetadata
    /\ pc' = "writeMeta"
    /\ index' = 0
    /\ UNCHANGED <<diskVars, nsLock, pipeVars, callerVars, scanVars, stageVars,
                   blockVars, err, abortSite, readerView, histVars>>

\* mutant: the checksum is taken from the hasher of disk 0
Block512SumFirst(i) == HexEncode(sha512Sum(sha512Writers[0].h))

\* hex.EncodeToString(sha512Writers[index].Sum(nil))
Block512Sum(i) == HexEncode(sha512Sum(sha512Writers[i].h))

\* mutant: the checksum is set only when bytes were written
MetadataForNonEmpty(i) ==
    IF sha512Writers[i].set /\ totalSize > 0
    THEN MetaSet(metadata, "file.xl.block512Sum", Block512Sum(i))
    ELSE metadata

\* the map after the checksum of disk i has been set in it
MetadataFor(i) ==
    IF sha512Writers[i].set
    THEN MetaSet(metadata, "file.xl.block512Sum", Block512Sum(i))
    ELSE metadata

\* mutant: a failing sidecar Write is logged and the loop goes on with the
\* next disk
WriteMetadataTolerant ==
    /\ pc = "writeMeta"
    /\ IF ~metadataWriters[index]
       THEN /\ index' = NextIndex(index)
            /\ pc' = IF index + 1 < NumDisks THEN "writeMeta" ELSE "lockWrite"
            /\ UNCHANGED <<metaWriter, metadata, err, abortSite, diskTouched>>
       ELSE /\ diskTouched' = TRUE
            /\ metadata' = MetadataFor(index)
            /\ index' = NextIndex(index)
            /\ pc' = IF index + 1 < NumDisks THEN "writeMeta" ELSE "lockWrite"
            /\ abortSite' = abortSite
            /\ \E ok \in BOOLEAN :
               IF ok
               THEN /\ metaWriter' = [metaWriter EXCEPT ![index].rec =
                                         File(MetadataFor(index))]
                    /\ err' = nil
               ELSE /\ err' = errMetaWrite
                    /\ UNCHANGED metaWriter
    /\ UNCHANGED <<filePart, fileMeta, partWriter, nsLock, pipeVars, callerVars,
                   scanVars, stageVars, blockVars, readerView, preMeta, postMeta,
                   deleteErrs>>

\* one pass of the loop over metadataWriters: metadata.Write(metadataWriter)
WriteMetadata ==
    /\ pc = "writeMeta"
    /\ IF ~metadataWriters[index]
       THEN /\ index' = NextIndex(index)
            /\ pc' = IF index + 1 < NumDisks THEN "writeMeta" ELSE "lockWrite"
            /\ UNCHANGED <<metaWriter, metadata, err, abortSite, diskTouched>>
       ELSE /\ diskTouched' = TRUE
            /\ metadata' = MetadataFor(index)
            /\ \E ok \in BOOLEAN :
               IF ok
               THEN /\ metaWriter' = [metaWriter EXCEPT ![index].rec =
                                         File(MetadataFor(index))]
                    /\ err' = nil
                    /\ index' = NextIndex(index)
                    /\ pc' = IF index + 1 < NumDisks THEN "writeMeta"
                             ELSE "lockWrite"
                    /\ abortSite' = abortSite
               ELSE /\ err' = errMetaWrite
                    /\ abortSite' = "writeMeta"
                    /\ pc' = "cleanup"
                    /\ index' = 0
                    /\ UNCHANGED metaWriter
    /\ UNCHANGED <<filePart, fileMeta, partWriter, nsLock, pipeVars, callerVars,
                   scanVars, stageVars, blockVars, readerView, preMeta, postMeta,
                   deleteErrs>>

(***************************************************************************)
(* writeErasure: the commit under the exclusive lock.                      *)
(***************************************************************************)
\* mutant: readLock is still true at the second lockNS, which takes the
\* shared lock
LockWriteShared ==
    /\ pc = "lockWrite"
    /\ nsLock = "free"
    /\ nsLock' = "shared"
    /\ pc' = "closePart"
    /\ index' = 0
    /\ UNCHANGED <<diskVars, pipeVars, callerVars, scanVars, stageVars, blockVars,
                   metadata, err, abortSite, readerView, histVars>>

\* xl.lockNS(volume, path, readLock) with readLock = false, and the deferred
\* unlock
LockWrite ==
    /\ pc = "lockWrite"
    /\ nsLock = "free"
    /\ nsLock' = "exclusive"
    /\ pc' = "closePart"
    /\ index' = 0
    /\ UNCHANGED <<diskVars, pipeVars, callerVars, scanVars, stageVars, blockVars,
                   metadata, err, abortSite, readerView, histVars>>

\* where the commit loop goes after disk i
AfterCommit(i) == IF i + 1 < NumDisks THEN "closePart" ELSE "closeReader"

\* one pass of the commit loop: writer.Close() renames part.index into place
ClosePart ==
    /\ pc = "closePart"
    /\ IF ~writers[index]
       THEN /\ pc' = AfterCommit(index)
            /\ index' = NextIndex(index)
            /\ UNCHANGED <<partWriter, filePart, err, abortSite, diskTouched>>
       ELSE /\ diskTouched' = TRUE
            /\ \E ok \in BOOLEAN :
               IF ok
               THEN /\ partWriter' = [partWriter EXCEPT ![index].st = "committed"]
                    /\ filePart' = [filePart EXCEPT ![index] =
                                       File(partWriter[index].data)]
                    /\ err' = nil
                    /\ abortSite' = abortSite
                    /\ IF metadataWriters[index]
                       THEN pc' = "closeMeta" /\ index' = index
                       ELSE pc' = AfterCommit(index) /\ index' = NextIndex(index)
               ELSE /\ err' = errDiskClose
                    /\ abortSite' = "closePart"
                    /\ pc' = "cleanup"
                    /\ index' = 0
                    /\ UNCHANGED <<partWriter, filePart>>
    /\ UNCHANGED <<fileMeta, metaWriter, nsLock, pipeVars, callerVars, scanVars,
                   stageVars, blockVars, metadata, readerView, preMeta, postMeta,
                   deleteErrs>>

\* the sidecar a committed sidecar writer leaves at the final path
CommittedSidecar(w) == IF w.rec = NoFile THEN File(EmptyMetadata) ELSE w.rec

\* metadataWriters[index].Close() renames the sidecar into place
CloseMeta ==
    /\ pc = "closeMeta"
    /\ \E ok \in BOOLEAN :
          IF ok
          THEN /\ metaWriter' = [metaWriter EXCEPT ![index].st = "committed"]
               /\ fileMeta' = [fileMeta EXCEPT ![index] =
                                  CommittedSidecar(metaWriter[index])]
               /\ err' = nil
               /\ abortSite' = abortSite
               /\ pc' = AfterCommit(index)
               /\ index' = NextIndex(index)
          ELSE /\ err' = errDiskClose
               /\ abortSite' = "closeMeta"
               /\ pc' = "cleanup"
               /\ index' = 0
               /\ UNCHANGED <<metaWriter, fileMeta>>
    /\ UNCHANGED <<filePart, partWriter, nsLock, pipeVars, callerVars, scanVars,
                   stageVars, blockVars, metadata, readerView, histVars>>

\* io.PipeReader.CloseWithError(e): a nil error closes with ErrClosedPipe
PipeCloseError(e) == IF e = nil THEN ErrClosedPipe ELSE e

\* mutant: the wait closer is released together with reader.Close(), before
\* the deferred unlock
CloseReaderReleases ==
    /\ pc = "closeReader"
    /\ pipeRerr' = PipeCloseError(nil)
    /\ readerCloses' = Append(readerCloses, nil)
    /\ postMeta' = View(fileMeta)
    /\ released' = TRUE
    /\ pc' = "unlockWrite"
    /\ UNCHANGED <<diskVars, nsLock, pipeBuf, pipeWerr, callerVars,
                   index, scanVars, stageVars, blockVars, metadata, err,
                   abortSite, readerView, preMeta, diskTouched, deleteErrs>>

\* reader.Close() on the success path
CloseReader ==
    /\ pc = "closeReader"
    /\ pipeRerr' = PipeCloseError(nil)
    /\ readerCloses' = Append(readerCloses, nil)
    /\ postMeta' = View(fileMeta)
    /\ pc' = "unlockWrite"
    /\ UNCHANGED <<diskVars, nsLock, pipeBuf, pipeWerr, released, callerVars,
                   index, scanVars, stageVars, blockVars, metadata, err,
                   abortSite, readerView, preMeta, diskTouched, deleteErrs>>

(***************************************************************************)
(* cleanupCreateFileOps and the ways out of writeErasure.                  *)
(***************************************************************************)
\* safeCloseAndRemove of a writer: a staged file is removed, not promoted
Discarded(st) == IF st = "staged" THEN "discarded" ELSE st

\* the caller's err after closeAndRemoveWriters logged the error derr
ErrAfterDiscard(e, derr) == e

\* one pass of the loop of closeAndRemoveWriters over
\* append(writers, metadataWriters...): safeCloseAndRemove of the writer at
\* `index`, the part writers first, then the sidecar writers
CloseAndRemoveWriters ==
    /\ pc = "cleanup"
    /\ IF index < NumDisks
       THEN /\ partWriter' =
                  IF writers[index]
                  THEN [partWriter EXCEPT ![index].st = Discarded(@)]
                  ELSE partWriter
            /\ UNCHANGED metaWriter
       ELSE /\ metaWriter' =
                  IF metadataWriters[index - NumDisks]
                  THEN [metaWriter EXCEPT ![index - NumDisks].st = Discarded(@)]
                  ELSE metaWriter
            /\ UNCHANGED partWriter
    /\ \E derr \in {nil, errDiscard} : err' = ErrAfterDiscard(err, derr)
    /\ diskTouched' = (diskTouched \/ (IF index < NumDisks THEN writers[index]
                                     ELSE metadataWriters[index - NumDisks]))
    /\ IF index + 1 < 2 * NumDisks
       THEN pc' = "cleanup" /\ index' = index + 1
       ELSE pc' = "deleteFile" /\ index' = 0
    /\ UNCHANGED <<filePart, fileMeta, nsLock, pipeVars, callerVars, scanVars,
                   stageVars, blockVars, metadata, abortSite, readerView,
                   preMeta, postMeta, deleteErrs>>

\* mutant: the DeleteFile error is assigned to the caller's err
ErrAfterDeleteAssigned(e, derr) == IF derr # nil THEN derr ELSE e

\* the caller's err after the loop logged the DeleteFile error derr
ErrAfterDelete(e, derr) == e

\* what DeleteFile(volume, path) returns on a healthy disk
DeleteResult(d) ==
    IF filePart[d] = NoFile /\ fileMeta[d] = NoFile THEN errFileNotFound ELSE nil

\* mutant: the loop over the disks is left at the first DeleteFile error
DeleteFileStopsOnError ==
    /\ pc = "deleteFile"
    /\ diskTouched' = TRUE
    /\ \E derr \in {DeleteResult(index), errDiskDelete} :
          /\ IF derr = errDiskDelete
             THEN UNCHANGED <<filePart, fileMeta>>
             ELSE /\ filePart' = [filePart EXCEPT ![index] = NoFile]
                  /\ fileMeta' = [fileMeta EXCEPT ![index] = NoFile]
          /\ err' = ErrAfterDelete(err, derr)
          /\ deleteErrs' = [deleteErrs EXCEPT ![index] = derr]
          /\ index' = IF derr = errDiskDelete THEN 0 ELSE NextIndex(index)
          /\ pc' = IF index + 1 < NumDisks /\ derr # errDiskDelete
                   THEN "deleteFile" ELSE "closeWithError"
    /\ UNCHANGED <<partWriter, metaWriter, nsLock, pipeVars, callerVars,
                   scanVars, stageVars, blockVars, metadata, abortSite,
                   readerView, preMeta, postMeta>>

\* one pass of the loop over xl.storageDisks: disk.DeleteFile(volume, path)
DeleteFile ==
    /\ pc = "deleteFile"
    /\ diskTouched' = TRUE
    /\ \E derr \in {DeleteResult(index), errDiskDelete} :
          /\ IF derr = errDiskDelete
             THEN UNCHANGED <<filePart, fileMeta>>
             ELSE /\ filePart' = [filePart EXCEPT ![index] = NoFile]
                  /\ fileMeta' = [fileMeta EXCEPT ![index] = NoFile]
          /\ err' = ErrAfterDelete(err, derr)
          /\ deleteErrs' = [deleteErrs EXCEPT ![index] = derr]
    /\ index' = NextIndex(index)
    /\ pc' = IF index + 1 < NumDisks THEN "deleteFile" ELSE "closeWithError"
    /\ UNCHANGED <<partWriter, metaWriter, nsLock, pipeVars, callerVars,
                   scanVars, stageVars, blockVars, metadata, abortSite,
                   readerView, preMeta, postMeta>>

\* the argument of reader.CloseWithError at the site that aborted
SignalledError == IF abortSite = "staging" THEN errWriteQuorum ELSE err

\* reader.CloseWithError(...) and return
CloseWithError ==
    /\ pc = "closeWithError"
    /\ pipeRerr' = PipeCloseError(SignalledError)
    /\ readerCloses' = Append(readerCloses, SignalledError)
    /\ pc' = IF nsLock = "exclusive" THEN "unlockWrite" ELSE "release"
    /\ UNCHANGED <<diskVars, nsLock, pipeBuf, pipeWerr, released, callerVars,
                   index, scanVars, stageVars, blockVars, metadata, err,
                   abortSite, readerView, histVars>>

\* the deferred xl.unlockNS(volume, path, readLock) with readLock = false
UnlockWrite ==
    /\ pc = "unlockWrite"
    /\ nsLock' = "free"
    /\ pc' = "release"
    /\ UNCHANGED <<diskVars, pipeVars, callerVars, index, scanVars, stageVars,
                   blockVars, metadata, err, abortSite, readerView, histVars>>

\* mutant: release is called on the success path only
ReleaseOnSuccessOnly ==
    /\ pc = "release"
    /\ released' = (abortSite = "none")
    /\ pc' = "done"
    /\ UNCHANGED <<diskVars, nsLock, pipeBuf, pipeWerr, pipeRerr, readerCloses,
                   callerVars, index, scanVars, stageVars, blockVars, metadata,
                   err, abortSite, readerView, histVars>>

\* the deferred wcloser.release()
Release ==
    /\ pc = "release"
    /\ released' = TRUE
    /\ pc' = "done"
    /\ UNCHANGED <<diskVars, nsLock, pipeBuf, pipeWerr, pipeRerr, readerCloses,
                   callerVars, index, scanVars, stageVars, blockVars, metadata,
                   err, abortSite, readerView, histVars>>

(***************************************************************************)
(* The specification.                                                      *)
(***************************************************************************)
Producer ==
    \/ LockRead \/ GetPartsMetadata \/ UnlockRead \/ CheckReadQuorum
    \/ CreatePart \/ CreateMeta
    \/ ReadData \/ ReadEOF \/ ReadError \/ SplitBlock \/ EncodeBlock \/ WriteShard
    \/ InitMetadata \/ WriteMetadata
    \/ LockWrite \/ ClosePart \/ CloseMeta \/ CloseReader
    \/ CloseAndRemoveWriters \/ DeleteFile \/ CloseWithError
    \/ UnlockWrite \/ Release

Caller ==
    \/ CreateFile \/ CallerWrite \/ CallerWriteFails \/ CallerClose
    \/ CallerCloseReturns

Next == Producer \/ Caller \/ ReaderScan

Spec == Init /\ [][Next]_vars

\* The producer is a goroutine of its own and the caller is assumed to go on
\* until its Close: both are weakly fair. The reader is left out: its scan
\* changes nothing the producer or the caller reads, and lock acquisitions
\* are assumed to return.
FairSpec ==
    /\ Init
    /\ [][Producer \/ Caller]_vars
    /\ WF_vars(Producer)
    /\ WF_vars(Caller)

\* The version scan alone, on every XL object over the disks: D + P = N
\* with at least one data and one parity block, and R = D.
XLConfigs == {XLWith(d) : d \in 1 .. (NumDisks - 1)}

ScanInit == \E config \in XLConfigs : InitWith(config)

ScanNext ==
    \/ CreateFile
    \/ LockRead \/ GetPartsMetadata \/ UnlockRead \/ CheckReadQuorum
    \/ CloseWithError \/ Release

ScanSpec == ScanInit /\ [][ScanNext]_vars

(***************************************************************************)
(* Properties.                                                             *)
(***************************************************************************)
\* writeErasure reached reader.Close(): the write succeeded
Success == readerCloses = <<nil>>

\* writeErasure signalled an error to the pipe
Aborted == readerCloses # <<>> /\ readerCloses[1] # nil

Terminated == pc = "done"

\* the keys every sidecar carries
SidecarKeys ==
    {"version", "format.major", "format.minor", "format.patch", "file.size",
     "file.modTime", "file.xl.blockSize", "file.xl.dataBlocks",
     "file.xl.parityBlocks", "file.xl.block512Sum"}

\* the sidecar writer of disk d has been handed the complete record
SidecarWritten(d) ==
    /\ metaWriter[d].rec # NoFile
    /\ SidecarKeys \subseteq DOMAIN metaWriter[d].rec[1]

\* both writers of disk d were committed by Close, and the files are in place
DiskCommitted(d) ==
    /\ partWriter[d].st = "committed"
    /\ metaWriter[d].st = "committed"
    /\ filePart[d] = File(partWriter[d].data)
    /\ fileMeta[d] = metaWriter[d].rec

CommittedDisks == {d \in Disks : DiskCommitted(d)}

\* the disks with both writers stored in the slices
LiveDisks == {d \in Disks : writers[d] /\ metadataWriters[d]}

\* C1: whenever writeErasure completes successfully, at least writeQuorum
\* disks have had both their part writer and their sidecar writer committed
\* by Close, and no sidecar writer is committed before its sidecar was
\* completely written.
C1_QuorumCommitted ==
    /\ \A d \in Disks : metaWriter[d].st = "committed" => SidecarWritten(d)
    /\ Success => Cardinality(CommittedDisks) >= writeQuorum

\* a successful write in which a disk failed staging and exactly writeQuorum
\* disks committed
C1_Witness ==
    /\ Success
    /\ Terminated
    /\ createFileError > 0
    /\ Cardinality(CommittedDisks) = writeQuorum

NoFilesOn(d) == filePart[d] = NoFile /\ fileMeta[d] = NoFile

\* C2 as claimed: after any aborted transaction, once the producer has
\* terminated, no part.i and no sidecar remains on any disk.
C2_NoFilesAfterAbort ==
    (Terminated /\ Aborted) => \A d \in Disks : NoFilesOn(d)

\* C2 as amended: after an abort of the version scan the disks are as they
\* were; after every other abort DeleteFile has been called on every disk
\* and no part.i and no sidecar remains on any disk whose DeleteFile did
\* not fail with an error other than errFileNotFound.
C2_NoFilesWhereDeleted ==
    (Terminated /\ Aborted) =>
        IF abortSite = "scan"
        THEN fileMeta = preMeta /\ ~diskTouched
        ELSE \A d \in Disks :
                /\ deleteErrs[d] # "none"
                /\ deleteErrs[d] # errDiskDelete => NoFilesOn(d)

\* an abort in the commit after a disk was committed: cleanup removed the
\* files of one disk and failed to delete on another
C2_Witness ==
    /\ Terminated
    /\ abortSite \in {"closePart", "closeMeta"}
    /\ \E d \in Disks : deleteErrs[d] = nil /\ partWriter[d].st = "committed"
    /\ \E d \in Disks : deleteErrs[d] = errDiskDelete /\ ~NoFilesOn(d)

RECURSIVE HighestExisting(_)
\* the highest file.version of the sidecars on disks 0..i before the write
HighestExisting(i) ==
    IF i < 0 THEN 0
    ELSE Max(HighestExisting(i - 1),
             IF preMeta[i] # NoFile /\ MetaHas(preMeta[i][1], "file.version")
             THEN ParseInt(preMeta[i][1]["file.version"]) ELSE 0)

\* C3 as claimed: in every successful write, file.version is present in the
\* committed sidecars, with the highest existing file.version plus one,
\* exactly when at least one disk failed CreateFile during staging.
C3_VersionIffPartial ==
    Success =>
        \A d \in CommittedDisks :
            /\ MetaHas(fileMeta[d][1], "file.version") <=> createFileError > 0
            /\ MetaHas(fileMeta[d][1], "file.version") =>
                  fileMeta[d][1]["file.version"]
                      = FormatInt(HighestExisting(NumDisks - 1) + 1)

\* a CreateFile of disk d failed
CreateFailed(d) == partWriter[d].st = "failed" \/ metaWriter[d].st = "failed"

BlockLoopPcs == {"read", "split", "encode", "write"}

\* C4 as claimed: createFileError counts, each once, the disks whose part.i
\* or sidecar CreateFile failed; staging goes on while the count is at most
\* N - W and aborts as soon as it exceeds N - W, with cleanup of every
\* writer staged so far and errWriteQuorum, and without a block read or
\* written; the block loop is entered only with at least W live disks.
C4_StagingQuorum ==
    /\ createFileError
          = Cardinality({d \in Disks : CreateFailed(d)})
    /\ abortSite # "staging" => createFileError <= NumDisks - writeQuorum
    /\ abortSite = "staging" =>
          /\ createFileError = NumDisks - writeQuorum + 1
          /\ totalSize = 0 /\ dataBuffer = <<>>
          /\ \A d \in Disks : partWriter[d].data = <<>>
          /\ pc \notin BlockLoopPcs
          /\ readerCloses \in {<<>>, <<errWriteQuorum>>}
          /\ Terminated =>
                /\ readerCloses = <<errWriteQuorum>>
                /\ \A d \in Disks :
                      /\ partWriter[d].st \in {"none", "failed", "discarded"}
                      /\ metaWriter[d].st \in {"none", "failed", "discarded"}
    /\ pc \in BlockLoopPcs => Cardinality(LiveDisks) >= writeQuorum

RECURSIVE ShardStream(_, _, _)
\* shard d of every encoded block of the first len input bytes, in block
\* order, starting with the block after position from
ShardStream(d, from, len) ==
    IF from >= len THEN <<>>
    ELSE LET n == Min(erasureBlockSize, len - from)
         IN  BytesCat(Encode(Split(InputBytes(from, n)))[d],
                      ShardStream(d, from + n, len))

\* C5: for every disk that committed, the file.xl.block512Sum of its
\* sidecar is the hex digest of exactly the bytes written to its part.i,
\* which are shard i of every encoded block in block order.
C5_ChecksumOfPart ==
    \A d \in Disks :
        /\ SidecarWritten(d) =>
              /\ partWriter[d].data = ShardStream(d, 0, totalSize)
              /\ metaWriter[d].rec[1]["file.xl.block512Sum"]
                    = HexEncode(Sha512Of(partWriter[d].data))
        /\ DiskCommitted(d) =>
              /\ SidecarWritten(d)
              /\ filePart[d] = File(partWriter[d].data)
              /\ fileMeta[d][1]["file.xl.block512Sum"]
                    = metaWriter[d].rec[1]["file.xl.block512Sum"]

\* a committed write of a full block and a tail whose disks hold different
\* shards and different checksums
C5_Witness ==
    /\ Success
    /\ totalSize > erasureBlockSize
    /\ \E d, e \in CommittedDisks :
          /\ filePart[d] # filePart[e]
          /\ fileMeta[d][1]["file.xl.block512Sum"]
                # fileMeta[e][1]["file.xl.block512Sum"]

\* C6: in every successful write the file.size of the sidecar of every live
\* disk is the number of bytes read from the pipe before EOF, which is the
\* number of bytes the caller wrote.
C6_FileSize ==
    Success =>
        /\ LiveDisks # {}
        /\ \A d \in LiveDisks :
              /\ fileMeta[d] # NoFile
              /\ ParseInt(fileMeta[d][1]["file.size"]) = sent
              /\ fileMeta[d][1]["file.size"] = FormatInt(sent)

\* a successful write of one full block and a short tail
C6_Witness ==
    /\ Success
    /\ sent > erasureBlockSize
    /\ sent % erasureBlockSize # 0
    /\ \A d \in LiveDisks : ParseInt(fileMeta[d][1]["file.size"]) = sent

\* C7 as claimed: every version scan of a concurrent reader shows, across
\* the disks, the sidecars as they were before the write or as they are
\* after its commit.
C7_ReaderSeesPreOrPost ==
    readerView # NoView =>
        \/ readerView = View(preMeta)
        \/ postMeta # NoView /\ readerView = postMeta

\* the error each abort site hands to the pipe
OriginError(site) ==
    CASE site = "scan" -> errDiskScan
      [] site = "staging" -> errWriteQuorum
      [] site = "read" -> errCallerAbort
      [] site = "split" -> errSplit
      [] site = "encode" -> errEncode
      [] site = "write" -> errDiskWrite
      [] site = "writeMeta" -> errMetaWrite
      [] site \in {"closePart", "closeMeta"} -> errDiskClose
      [] OTHER -> nil

\* C8: the producer closes the pipe reader exactly once; on an abort with
\* the originating error, which no error of cleanup replaces, and on
\* success with no error.
C8_OriginatingError ==
    /\ Len(readerCloses) <= 1
    /\ pc \in {"unlockWrite", "release", "done"} =>
          readerCloses = <<OriginError(abortSite)>>
    /\ pc \notin {"idle", "unlockWrite", "release", "done"} => readerCloses = <<>>
    /\ readerCloses # <<>> =>
          pipeRerr = PipeCloseError(readerCloses[1])

\* an abort by a failing Close whose cleanup met a failing DeleteFile
C8_Witness ==
    /\ Terminated
    /\ abortSite = "closeMeta"
    /\ \E d \in Disks : deleteErrs[d] = errDiskDelete
    /\ readerCloses = <<errDiskClose>>

C10_ReadQuorum ==
    /\ abortSite = "scan" =>
          /\ metadataReadErrCount > readQuorum
          /\ ~diskTouched
          /\ readerCloses \in {<<>>, <<errReadQuorum>>}
    /\ (abortSite # "scan" /\ pc \notin {"idle", "lockRead", "scan", "unlockRead",
                                         "countErrs"}) =>
          metadataReadErrCount <= readQuorum

\* C11: for an input stream of exactly 0 bytes the block loop issues no
\* Write to any part.i writer; once at least writeQuorum disks are staged
\* the write fails only on a failing sidecar Write or Close, and when it
\* succeeds every live disk has both writers committed, an empty part.i,
\* and a sidecar with file.size = 0 and the digest of the empty byte
\* sequence as block512Sum.
C11_EmptyObject ==
    sent = 0 =>
        /\ pc \notin {"split", "encode", "write"}
        /\ \A d \in Disks : partWriter[d].data = <<>>
        /\ (Terminated /\ pipeWerr = EOF
                /\ abortSite \notin {"scan", "staging", "writeMeta",
                                     "closePart", "closeMeta"}) => Success
        /\ Success =>
              /\ Cardinality(LiveDisks) >= writeQuorum
              /\ \A d \in LiveDisks :
                    /\ DiskCommitted(d)
                    /\ filePart[d] = File(<<>>)
                    /\ SidecarKeys \subseteq DOMAIN fileMeta[d][1]
                    /\ fileMeta[d][1]["file.size"] = FormatInt(0)
                    /\ fileMeta[d][1]["file.xl.block512Sum"]
                          = HexEncode(Sha512Of(<<>>))

\* a successful empty write over an earlier object, with one disk that
\* failed staging
C11_Witness ==
    /\ Success
    /\ Terminated
    /\ sent = 0
    /\ createFileError > 0
    /\ Cardinality(CommittedDisks) = writeQuorum
    /\ \E d \in Disks : preMeta[d] # NoFile

\* every shard of the object has been written to the part.i writer of every
\* live disk: the stream has ended and all of it went through the codec
ShardsComplete ==
    /\ pipeWerr = EOF
    /\ pipeBuf = <<>>
    /\ dataBuffer = <<>>
    /\ totalSize = sent
    /\ \A d \in LiveDisks : partWriter[d].data = ShardStream(d, 0, sent)

SidecarsComplete == \A d \in LiveDisks : SidecarWritten(d)

\* C12: a sidecar Write is issued, and a sidecar writer receives its record,
\* only when the last shard Write of every live disk is done, and no shard
\* Write follows it; a commit Close of a part writer or of a sidecar writer
\* is issued, and a writer becomes committed, only when the sidecar of
\* every live disk has been written.
C12_SidecarThenCommit ==
    [][/\ (pc = "writeMeta" /\ metadataWriters[index]) => ShardsComplete
       /\ (\E d \in Disks : metaWriter'[d].rec # metaWriter[d].rec)
             => ShardsComplete
       /\ (\E d \in Disks : partWriter'[d].data # partWriter[d].data)
             => \A e \in Disks : metaWriter[e].rec = NoFile
       /\ ((pc = "closePart" /\ writers[index]) \/ pc = "closeMeta")
             => SidecarsComplete
       /\ (\E d \in Disks :
               \/ partWriter'[d].st = "committed" /\ partWriter[d].st # "committed"
               \/ metaWriter'[d].st = "committed" /\ metaWriter[d].st # "committed")
             => (SidecarsComplete /\ ShardsComplete)
      ]_vars

\* the commit of the last disk of a write of more than one block on all
\* disks, every sidecar written and the earlier disks committed
C12_Witness ==
    /\ pc = "closeMeta"
    /\ index = NumDisks - 1
    /\ sent > erasureBlockSize
    /\ LiveDisks = Disks
    /\ SidecarsComplete
    /\ \A d \in Disks : d < index => DiskCommitted(d)

\* the positions of writeErasure between the second lockNS and the deferred
\* unlockNS
CommitPcs ==
    {"closePart", "closeMeta", "closeReader", "cleanup", "deleteFile",
     "closeWithError", "unlockWrite"}

\* C13: every commit Close runs under the exclusive lock; the exclusive
\* lock is taken only after every live sidecar was written, is not held
\* in the scan, staging, streaming or the metadata write, is held through
\* the cleanup of an abort caused by a failing Close, and is free again
\* when the producer has terminated.
C13_ExclusiveLock ==
    /\ pc \in {"closePart", "closeMeta"} => nsLock = "exclusive"
    /\ nsLock = "exclusive" =>
          /\ pc \in CommitPcs
          /\ SidecarsComplete
          /\ abortSite \in {"none", "closePart", "closeMeta"}
    /\ pc \in {"lockRead", "scan", "unlockRead", "countErrs", "createPart",
               "createMeta", "read", "split", "encode", "write",
               "initMetadata", "writeMeta", "lockWrite"} => nsLock # "exclusive"
    /\ (abortSite \in {"closePart", "closeMeta"}
           /\ pc \in {"cleanup", "deleteFile", "closeWithError"})
          => nsLock = "exclusive"
    /\ pc \in {"release", "done"} => nsLock = "free"

\* a failing Close of a sidecar writer after a disk was committed: cleanup
\* is deleting the files while the exclusive lock is held
C13_Witness ==
    /\ pc = "deleteFile"
    /\ index > 0
    /\ abortSite = "closeMeta"
    /\ nsLock = "exclusive"
    /\ \E d \in Disks : partWriter[d].st = "committed" /\ NoFilesOn(d)

\* the shared lock is held only between lockNS and unlockNS of the scan
SharedOnlyInScan ==
    /\ pc = "scan" => nsLock = "shared"
    /\ nsLock = "shared" => pc \in {"scan", "unlockRead"}
    /\ pc \in {"countErrs", "createPart", "createMeta"} => nsLock = "free"
    /\ pc = "read" => nsLock = "free"

\* C14 as claimed: the shared lock is held only while the sidecars are
\* read for the version scan, it is released before the read-quorum check,
\* before any CreateFile and before the first read from the pipe, and the
\* producer holds no namespace lock whenever it is blocked reading the pipe
\* or the caller is blocked in Write.
C14_NoLockWhileBlocked ==
    /\ SharedOnlyInScan
    /\ callerPc = "inWrite" => nsLock = "free"

\* C14 as amended: the same, except that a Write the caller started before
\* the scan ended is blocked while the shared lock of that scan is held;
\* from the unlock of the scan on, no lock is held while the caller is
\* blocked in Write.
C14_NoLockWhileReading ==
    /\ SharedOnlyInScan
    /\ (callerPc = "inWrite" /\ nsLock # "free") =>
          (nsLock = "shared" /\ pc \in {"scan", "unlockRead"})

\* the producer waits for the caller's next Write in the middle of the
\* stream, holding no lock
C14_Witness ==
    /\ pc = "read"
    /\ totalSize > 0
    /\ pipeBuf = <<>>
    /\ callerPc = "ready"
    /\ pipeWerr = "open"
    /\ nsLock = "free"

\* the phase of the commit coordinator at each position of writeErasure:
\* 1 scanning, 2 staging, 3 streaming, 4 metadata write, 5 committing,
\* 6 aborting, 7 done (0: not started)
PhaseOf(p) ==
    CASE p \in {"lockRead", "scan", "unlockRead", "countErrs"} -> 1
      [] p \in {"createPart", "createMeta"} -> 2
      [] p \in {"read", "split", "encode", "write"} -> 3
      [] p \in {"initMetadata", "writeMeta"} -> 4
      [] p \in {"lockWrite", "closePart", "closeMeta", "closeReader"} -> 5
      [] p \in {"cleanup", "deleteFile", "closeWithError"} -> 6
      [] p \in {"unlockWrite", "release", "done"} -> 7
      [] OTHER -> 0

\* the phases follow each other one by one, or the producer aborts
PhaseStep ==
    \/ PhaseOf(pc') = PhaseOf(pc)
    \/ PhaseOf(pc) < 5 /\ PhaseOf(pc') = PhaseOf(pc) + 1
    \/ PhaseOf(pc) \in 1 .. 5 /\ PhaseOf(pc') = 6 /\ abortSite' # "none"
    \/ PhaseOf(pc) \in {5, 6} /\ PhaseOf(pc') = 7

\* cleanupCreateFileOps has run to its end: every writer of the slices is
\* discarded, unless Close had committed it, and DeleteFile was called on
\* every disk
CleanupDone ==
    /\ \A d \in Disks :
          /\ writers[d] => partWriter[d].st \in {"discarded", "committed"}
          /\ metadataWriters[d] => metaWriter[d].st \in {"discarded", "committed"}
    /\ \A d \in Disks : deleteErrs[d] # "none"

\* cleanup has done what the claim says of it: no writer a CreateFile
\* returned is left staged, each is discarded unless Close had committed
\* it, and DeleteFile was called on every disk
StagedWritersCleaned ==
    /\ \A d \in Disks :
          /\ partWriter[d].st \in {"none", "failed", "discarded", "committed"}
          /\ metaWriter[d].st \in {"none", "failed", "discarded", "committed"}
    /\ \A d \in Disks : deleteErrs[d] # "none"

\* C15 as claimed: the producer moves through scanning, staging, streaming,
\* metadata write, committing and done in that order and never backwards,
\* leaving the order only to abort; every abort, from whichever phase, has
\* run cleanup when the producer terminates with the error.
C15_PhasesAndCleanup ==
    [][/\ PhaseStep
       /\ (pc' = "done" /\ abortSite # "none")
             => (StagedWritersCleaned /\ Aborted)
      ]_vars

\* the errors of a failing pipe read, Split, Encode, shard Write, sidecar
\* Write and commit Close
FailureErrors ==
    {errCallerAbort, errSplit, errEncode, errDiskWrite, errMetaWrite,
     errDiskClose}

\* the abort sites after staging
LateSites ==
    {"read", "split", "encode", "write", "writeMeta", "closePart", "closeMeta"}

\* C16: after staging, one failure of a pipe read, of Split or Encode, of
\* a shard Write, of a sidecar Write or of a commit Close starts the abort
\* at once, however many disks are live, and from then on no part writer
\* receives a shard, no sidecar writer a record, no writer is committed,
\* and the write does not succeed.
C16_NoToleranceAfterStaging ==
    [][/\ (PhaseOf(pc) \in 3 .. 5 /\ err' \in FailureErrors)
             => (pc' = "cleanup" /\ abortSite' \in LateSites)
       /\ abortSite \in LateSites =>
             /\ abortSite' = abortSite
             /\ PhaseOf(pc') \in {6, 7}
             /\ \A d \in Disks :
                   /\ partWriter'[d].data = partWriter[d].data
                   /\ metaWriter'[d].rec = metaWriter[d].rec
                   /\ partWriter'[d].st = "committed"
                         => partWriter[d].st = "committed"
                   /\ metaWriter'[d].st = "committed"
                         => metaWriter[d].st = "committed"
             /\ readerCloses' # <<nil>>
      ]_vars

\* with every disk live and a block already written, one failing shard
\* Write aborted the whole write
C16_Witness ==
    /\ Terminated
    /\ abortSite = "write"
    /\ Aborted
    /\ LiveDisks = Disks
    /\ totalSize > 0
    /\ \A d \in Disks : partWriter[d].st = "discarded"

\* DeleteFile has been attempted on every disk
DeleteAttemptedOnAll == \A d \in Disks : deleteErrs[d] # "none"

\* C17: cleanupCreateFileOps, whatever writers it is given, attempts
\* DeleteFile on the disks one after the other, on all of them whether
\* live or not, going on after a discard error and after a DeleteFile
\* error, and it always completes.
C17_DeleteOnAllDisks ==
    /\ [](pc = "deleteFile" =>
             \A d \in Disks : deleteErrs[d] # "none" <=> d < index)
    /\ []((abortSite \notin {"none", "scan"}
               /\ pc \in {"closeWithError", "unlockWrite", "release", "done"})
             => DeleteAttemptedOnAll)
    /\ (pc = "cleanup") ~> (pc = "closeWithError" /\ DeleteAttemptedOnAll)

\* a cleanup given a nil, a committed and two staged writers: DeleteFile
\* failed on the first disk, which was not live, and was still attempted
\* on the others
C17_Witness ==
    /\ pc = "closeWithError"
    /\ abortSite = "closeMeta"
    /\ DeleteAttemptedOnAll
    /\ deleteErrs[0] = errDiskDelete
    /\ ~writers[0]
    /\ \E d \in Disks : partWriter[d].st = "committed" /\ deleteErrs[d] = nil
    /\ \E d \in Disks : partWriter[d].st = "discarded"

\* the disks whose sidecar read returned a sidecar or errFileNotFound
ScanAnswered(es) == {d \in Disks : ~OtherError(es[d])}

\* C18 as claimed: for every configuration with D + P = N and R = D, the
\* producer leaves the scan for staging only if at least R disks returned
\* a sidecar or errFileNotFound, and whenever fewer than R disks did, the
\* transaction fails in the scan.
C18_ScanNeedsReadQuorum ==
    [][(pc = "countErrs" /\ pc' # pc) =>
          /\ pc' = "createPart" =>
                Cardinality(ScanAnswered(errs)) >= xl.readQuorum
          /\ Cardinality(ScanAnswered(errs)) < xl.readQuorum =>
                (pc' = "closeWithError" /\ abortSite' = "scan")
      ]_vars

\* C19 as claimed: when the producer has terminated, no writer a disk's
\* CreateFile returned is still open and staged: each has been committed by
\* Close or discarded by close-and-remove, also the part.i writer of a
\* disk whose sidecar CreateFile failed.
C19_NoWriterLeftStaged ==
    Terminated =>
        \A d \in Disks :
            /\ partWriter[d].st \in {"none", "failed", "committed", "discarded"}
            /\ metaWriter[d].st \in {"none", "failed", "committed", "discarded"}

\* C20: the release of the wait closer is the last step of the producer:
\* it is taken with neither the shared nor the exclusive lock held, after
\* the reader was closed and after cleanup, if any, has finished, and once
\* released the producer issues nothing to any disk and takes no lock.
C20_ReleaseLast ==
    [][/\ (released' /\ ~released) =>
             /\ pc = "release" /\ pc' = "done"
             /\ nsLock = "free" /\ nsLock' = "free"
             /\ readerCloses # <<>>
             /\ abortSite \notin {"none", "scan"} => CleanupDone
             /\ diskVars' = diskVars
       /\ released =>
             /\ released'
             /\ pc = "done" /\ pc' = "done"
             /\ nsLock' = "free"
             /\ diskVars' = diskVars
             /\ diskTouched' = diskTouched
             /\ deleteErrs' = deleteErrs
      ]_vars

\* the caller's Close has returned from a write that aborted in the commit:
\* the lock is free and cleanup has run on every disk
C20_Witness ==
    /\ released
    /\ callerPc = "returned"
    /\ abortSite = "closePart"
    /\ nsLock = "free"
    /\ CleanupDone
    /\ \E d \in Disks : partWriter[d].st = "committed"

====
